---- MODULE Spec2Model ----
(***************************************************************************)
(* Skill tooling of teratron/template:                                     *)
(*   init_skill.py     - the Scaffolder                                    *)
(*   package_skill.py  - the Packager (gated by the Validator)             *)
(*   check.py          - the wrapper around cargo-semver-checks            *)
(*                                                                         *)
(* Every tool run is one process; the only state shared between runs is    *)
(* the filesystem.  A run is one action; its inputs (argv, the working     *)
(* directory, the behaviour of the environment) are drawn with \E.         *)
(*                                                                         *)
(* A path is the sequence of its components below the workspace root.      *)
(***************************************************************************)
EXTENDS Integers, Sequences, FiniteSets, TLC

VARIABLES
    fs,      \* the filesystem: a function from the existing paths to nodes
    last,    \* the record of the most recent tool run
    succ,    \* skill directory -> number of init_skill calls that returned it
    calls    \* the number of tool runs so far

vars == <<fs, last, succ, calls>>

(***************************************************************************)
(* Filesystem nodes                                                        *)
(***************************************************************************)
NoPath == <<"<none>">>

DirNode == [kind |-> "dir", fmt |-> "dir", name |-> "", description |-> "",
            title |-> <<>>, entries |-> {}]

TextFile(fmt, name, description, title) ==
    [kind |-> "file", fmt |-> fmt, name |-> name, description |-> description,
     title |-> title, entries |-> {}]

\* what a write that failed after the file was opened leaves behind
EmptyFile == TextFile("empty", "", "", <<>>)

ZipFile(entries) ==
    [kind |-> "file", fmt |-> "zip", name |-> "", description |-> "",
     title |-> <<>>, entries |-> entries]

Prefixes(p) == {SubSeq(p, 1, n) : n \in 0..Len(p)}
IsPrefix(a, b) == Len(a) <= Len(b) /\ SubSeq(b, 1, Len(a)) = a

\* Path.parent and Path.name
Parent(p) == IF p = <<>> THEN <<>> ELSE SubSeq(p, 1, Len(p) - 1)
Name(p) == IF p = <<>> THEN "" ELSE p[Len(p)]

\* Path.exists / is_dir / is_file on filesystem f
Exists(f, p) == p \in DOMAIN f
IsDir(f, p) == p \in DOMAIN f /\ f[p].kind = "dir"
IsFile(f, p) == p \in DOMAIN f /\ f[p].kind = "file"

\* Path.resolve(): a relative path is taken from the working directory
Resolve(cwd, p) == cwd \o p

\* Path.mkdir can succeed at p: no component of p is a regular file.
\* parents=True creates the missing ancestors; exist_ok decides about p itself
MkdirPossible(f, p, exist_ok) ==
    /\ \A q \in Prefixes(p) : ~IsFile(f, q)
    /\ (exist_ok \/ ~Exists(f, p))

MkdirParents(f, p) ==
    [q \in (DOMAIN f) \cup Prefixes(p) |-> IF q \in DOMAIN f THEN f[q] ELSE DirNode]

\* Path.mkdir(exist_ok=True) without parents: the parent has to be a directory
MkdirOnePossible(f, p) == IsDir(f, Parent(p)) /\ ~IsFile(f, p)

\* Path.write_text / open(..., "w") can succeed at p
WritePossible(f, p) == IsDir(f, Parent(p)) /\ ~IsDir(f, p)

Put(f, p, node) == [q \in (DOMAIN f) \cup {p} |-> IF q = p THEN node ELSE f[q]]

\* the regular files below directory d (Path.rglob("*") filtered by is_file)
FilesUnder(f, d) == {p \in DOMAIN f : IsPrefix(d, p) /\ p # d /\ f[p].kind = "file"}

\* everything at or below d, with its contents
Subtree(f, d) == [p \in {q \in DOMAIN f : IsPrefix(d, q)} |-> f[p]]

(***************************************************************************)
(* init_skill.py                                                           *)
(***************************************************************************)
\* str.split("-") and str.capitalize() on the names of the model
Split(skill_name) ==
    CASE skill_name = "my-new-skill" -> <<"my", "new", "skill">>
      [] skill_name = "legacy" -> <<"legacy">>
      [] OTHER -> <<skill_name>>

Capitalize(word) ==
    CASE word = "my" -> "My"
      [] word = "new" -> "New"
      [] word = "skill" -> "Skill"
      [] word = "legacy" -> "Legacy"
      [] OTHER -> word

\* the title is the space-joined sequence of the capitalized words
title_case_skill_name(skill_name) ==
    [i \in DOMAIN Split(skill_name) |-> Capitalize(Split(skill_name)[i])]

TodoDescription == "[TODO: Complete and informative explanation ...]"

\* variant: the template leaves the description empty
SKILL_TEMPLATE_NoDescription(skill_name, skill_title) ==
    TextFile("skillmd", skill_name, "", skill_title)

SKILL_TEMPLATE(skill_name, skill_title) ==
    TextFile("skillmd", skill_name, TodoDescription, skill_title)

EXAMPLE_SCRIPT(skill_name) == TextFile("script", skill_name, "", <<>>)

EXAMPLE_REFERENCE(skill_title) == TextFile("reference", "", "", skill_title)

EXAMPLE_ASSET == TextFile("asset", "", "", <<>>)

Event(op, path) == [op |-> op, path |-> path]

\* variant: the exception of a failed operation is swallowed
DoStep_SwallowsError(f, step, faulty, torn) ==
    IF step.op = "mkdir"
    THEN [ok |-> TRUE,
          fs |-> IF MkdirOnePossible(f, step.path) /\ ~faulty
                 THEN MkdirParents(f, step.path) ELSE f]
    ELSE [ok |-> TRUE,
          fs |-> IF WritePossible(f, step.path) /\ ~faulty
                 THEN Put(f, step.path, step.node)
                 ELSE IF torn /\ WritePossible(f, step.path)
                      THEN Put(f, step.path, EmptyFile) ELSE f]

\* One filesystem operation of the scaffolder.  It raises when the filesystem
\* refuses it or when the environment fails it (faulty); a failed write may
\* leave the opened, still empty file behind (torn).
DoStep(f, step, faulty, torn) ==
    IF step.op = "mkdir"
    THEN IF MkdirOnePossible(f, step.path) /\ ~faulty
         THEN [ok |-> TRUE, fs |-> MkdirParents(f, step.path)]
         ELSE [ok |-> FALSE, fs |-> f]
    ELSE IF WritePossible(f, step.path) /\ ~faulty
         THEN [ok |-> TRUE, fs |-> Put(f, step.path, step.node)]
         ELSE [ok |-> FALSE,
               fs |-> IF torn /\ WritePossible(f, step.path)
                      THEN Put(f, step.path, EmptyFile) ELSE f]

\* The body of a try block: the steps in order, abandoned at the first raise.
\* Step i of the block is operation number base + i of the call.
RECURSIVE RunSteps(_, _, _, _, _, _, _)
RunSteps(f, log, steps, i, base, fault, torn) ==
    IF i > Len(steps)
    THEN [ok |-> TRUE, fs |-> f, log |-> log]
    ELSE LET r == DoStep(f, steps[i], fault = base + i, torn)
             lg == Append(log, Event(steps[i].op, steps[i].path))
         IN IF r.ok
            THEN RunSteps(r.fs, lg, steps, i + 1, base, fault, torn)
            ELSE [ok |-> FALSE, fs |-> r.fs, log |-> lg]

\* variant: the assets directory is created without its placeholder file
ResourceSteps_NoAssetFile(skill_dir, skill_name, skill_title) ==
    << [op |-> "mkdir", path |-> skill_dir \o <<"scripts">>, node |-> DirNode],
       [op |-> "write", path |-> skill_dir \o <<"scripts", "example.py">>,
        node |-> EXAMPLE_SCRIPT(skill_name)],
       [op |-> "mkdir", path |-> skill_dir \o <<"references">>, node |-> DirNode],
       [op |-> "write", path |-> skill_dir \o <<"references", "api_reference.md">>,
        node |-> EXAMPLE_REFERENCE(skill_title)],
       [op |-> "mkdir", path |-> skill_dir \o <<"assets">>, node |-> DirNode] >>

ResourceSteps(skill_dir, skill_name, skill_title) ==
    << [op |-> "mkdir", path |-> skill_dir \o <<"scripts">>, node |-> DirNode],
       [op |-> "write", path |-> skill_dir \o <<"scripts", "example.py">>,
        node |-> EXAMPLE_SCRIPT(skill_name)],
       [op |-> "mkdir", path |-> skill_dir \o <<"references">>, node |-> DirNode],
       [op |-> "write", path |-> skill_dir \o <<"references", "api_reference.md">>,
        node |-> EXAMPLE_REFERENCE(skill_title)],
       [op |-> "mkdir", path |-> skill_dir \o <<"assets">>, node |-> DirNode],
       [op |-> "write", path |-> skill_dir \o <<"assets", "example_asset.txt">>,
        node |-> EXAMPLE_ASSET] >>

Failure(f, log) == [fs |-> f, none |-> TRUE, path |-> NoPath, log |-> log]

\* variant: no existence check, and mkdir(parents=True, exist_ok=True)
CreateSkillDir_ExistOk(f, skill_dir, faulty, torn) ==
    IF MkdirPossible(f, skill_dir, TRUE) /\ ~faulty
    THEN [ok |-> TRUE, fs |-> MkdirParents(f, skill_dir),
          log |-> <<Event("mkdir", skill_dir)>>]
    ELSE [ok |-> FALSE,
          fs |-> IF torn /\ MkdirPossible(f, Parent(skill_dir), TRUE)
                 THEN MkdirParents(f, Parent(skill_dir)) ELSE f,
          log |-> <<Event("mkdir", skill_dir), Event("error", skill_dir)>>]

\* Lines 75-84: the existence check and skill_dir.mkdir(parents=True,
\* exist_ok=False).  A mkdir that fails may have created missing parents.
CreateSkillDir(f, skill_dir, faulty, torn) ==
    IF Exists(f, skill_dir)
    THEN [ok |-> FALSE, fs |-> f, log |-> <<Event("error", skill_dir)>>]
    ELSE IF MkdirPossible(f, skill_dir, FALSE) /\ ~faulty
    THEN [ok |-> TRUE, fs |-> MkdirParents(f, skill_dir),
          log |-> <<Event("mkdir", skill_dir)>>]
    ELSE [ok |-> FALSE,
          fs |-> IF torn /\ MkdirPossible(f, Parent(skill_dir), TRUE)
                 THEN MkdirParents(f, Parent(skill_dir)) ELSE f,
          log |-> <<Event("mkdir", skill_dir), Event("error", skill_dir)>>]

\* init_skill(skill_name, path) run in working directory cwd.
\* fault: number of the filesystem operation the environment fails (0: none)
\*   1 skill_dir.mkdir  2 SKILL.md  3..8 the resource directories and files
init_skill(f, cwd, skill_name, path, fault, torn) ==
    LET skill_dir == Resolve(cwd, path) \o <<skill_name>>
        skill_title == title_case_skill_name(skill_name)
        mk == CreateSkillDir(f, skill_dir, fault = 1, torn)
    IN IF ~mk.ok
       THEN Failure(mk.fs, mk.log)
       ELSE LET md == RunSteps(mk.fs, mk.log,
                               << [op |-> "write", path |-> skill_dir \o <<"SKILL.md">>,
                                   node |-> SKILL_TEMPLATE(skill_name, skill_title)] >>,
                               1, 1, fault, torn)
            IN IF ~md.ok
               THEN Failure(md.fs, Append(md.log, Event("error", skill_dir \o <<"SKILL.md">>)))
               ELSE LET rs == RunSteps(md.fs, md.log,
                                       ResourceSteps(skill_dir, skill_name, skill_title),
                                       1, 2, fault, torn)
                    IN IF ~rs.ok
                       THEN Failure(rs.fs, Append(rs.log, Event("error", skill_dir)))
                       ELSE [fs |-> rs.fs, none |-> FALSE, path |-> skill_dir, log |-> rs.log]

(***************************************************************************)
(* quick_validate.py (the Validator)                                       *)
(***************************************************************************)
\* validate_skill(skill_path): the first unmet condition decides the message
validate_skill(f, skill_path) ==
    LET skill_md == skill_path \o <<"SKILL.md">>
    IN IF ~IsDir(f, skill_path)
       THEN [valid |-> FALSE, message |-> "Skill folder not found"]
       ELSE IF ~IsFile(f, skill_md)
       THEN [valid |-> FALSE, message |-> "SKILL.md not found"]
       ELSE IF f[skill_md].fmt # "skillmd"
       THEN [valid |-> FALSE, message |-> "No frontmatter found"]
       ELSE IF f[skill_md].name = ""
       THEN [valid |-> FALSE, message |-> "Missing 'name' in frontmatter"]
       ELSE IF f[skill_md].description = ""
       THEN [valid |-> FALSE, message |-> "Missing 'description' in frontmatter"]
       ELSE [valid |-> TRUE, message |-> "Skill is valid!"]

(***************************************************************************)
(* package_skill.py                                                        *)
(***************************************************************************)
\* file_path.relative_to(skill_path.parent)
RelativeTo(file_path, base) == SubSeq(file_path, Len(base) + 1, Len(file_path))

ArcNames(files, skill_path) == {RelativeTo(p, Parent(skill_path)) : p \in files}

PkgResult(f, none, path, raised, log) ==
    [fs |-> f, none |-> none, path |-> path, raised |-> raised, log |-> log]

\* variant: the verdict of the Validator is reported but not acted on
PackageChecks_IgnoresVerdict(f, skill_path) ==
    IF ~Exists(f, skill_path)
    THEN [pass |-> FALSE, log |-> <<Event("error", skill_path)>>]
    ELSE IF ~IsDir(f, skill_path)
    THEN [pass |-> FALSE, log |-> <<Event("error", skill_path)>>]
    ELSE [pass |-> TRUE, log |-> <<Event("validate", skill_path)>>]

\* Lines 24-40: the folder must exist, be a directory and pass the Validator
PackageChecks(f, skill_path) ==
    IF ~Exists(f, skill_path)
    THEN [pass |-> FALSE, log |-> <<Event("error", skill_path)>>]
    ELSE IF ~IsDir(f, skill_path)
    THEN [pass |-> FALSE, log |-> <<Event("error", skill_path)>>]
    ELSE IF ~validate_skill(f, skill_path).valid
    THEN [pass |-> FALSE, log |-> <<Event("validate", skill_path), Event("error", skill_path)>>]
    ELSE [pass |-> TRUE, log |-> <<Event("validate", skill_path)>>]

\* package_skill(skill_path, output_dir) run in working directory cwd;
\* output_dir = NoPath stands for None.
\* fault: the operation the environment fails (0: none)
\*   1 output_path.mkdir   2 opening the ZipFile   3 a zipf.write, after the
\*   files of `written` were added
package_skill(f, cwd, skill_path_arg, output_dir, fault, written) ==
    LET skill_path == Resolve(cwd, skill_path_arg)
        checks == PackageChecks(f, skill_path)
        skill_name == Name(skill_path)
        output_path == IF output_dir # NoPath THEN Resolve(cwd, output_dir) ELSE cwd
        skill_filename == output_path \o <<skill_name \o ".skill">>
    IN IF ~checks.pass
       THEN PkgResult(f, TRUE, NoPath, FALSE, checks.log)
       ELSE IF output_dir # NoPath /\ ~(MkdirPossible(f, output_path, TRUE) /\ fault # 1)
       THEN \* the mkdir of line 46 is outside the try block: the exception escapes
            PkgResult(f, TRUE, NoPath, TRUE, Append(checks.log, Event("mkdir", output_path)))
       ELSE LET f1 == IF output_dir # NoPath THEN MkdirParents(f, output_path) ELSE f
                lg1 == IF output_dir # NoPath
                       THEN Append(checks.log, Event("mkdir", output_path)) ELSE checks.log
                lg2 == Append(lg1, Event("open", skill_filename))
            IN IF ~(WritePossible(f1, skill_filename) /\ fault # 2)
               THEN PkgResult(f1, TRUE, NoPath, FALSE, Append(lg2, Event("error", skill_filename)))
               ELSE LET f2 == Put(f1, skill_filename, ZipFile({}))
                        \* rglob runs after the archive file was created
                        files == FilesUnder(f2, skill_path)
                    IN IF fault = 3 /\ written \subseteq files /\ written # files
                       THEN \* leaving the with block closes the partial archive
                            PkgResult(Put(f2, skill_filename,
                                          ZipFile(ArcNames(written, skill_path))),
                                      TRUE, NoPath, FALSE,
                                      Append(lg2, Event("error", skill_filename)))
                       ELSE PkgResult(Put(f2, skill_filename,
                                          ZipFile(ArcNames(files, skill_path))),
                                      FALSE, skill_filename, FALSE,
                                      Append(lg2, Event("close", skill_filename)))

(***************************************************************************)
(* Command lines                                                           *)
(***************************************************************************)
\* sys.argv[i]; sys.argv[0] is the program name
Arg(argv, i) == argv[i + 1]

\* Path(<string>) for the strings the command lines of the model use
ParsePath(str) ==
    CASE str = "." -> <<>>
      [] str = "" -> <<>>
      [] str = "skills" -> <<"skills">>
      [] str = "afile" -> <<"afile">>
      [] str = "dist" -> <<"dist">>
      [] str = "skills/my-new-skill" -> <<"skills", "my-new-skill">>
      [] str = "skills/legacy" -> <<"skills", "legacy">>
      [] str = "skills/my-new-skill/out" -> <<"skills", "my-new-skill", "out">>
      [] OTHER -> <<str>>

NoEnv == [found |-> TRUE, install |-> "ok", launched |-> TRUE, returncode |-> 0]

\* the record of a tool run: its inputs (argv, cwd, the operation the
\* environment failed, the filesystem before, the environment of check.py) and
\* what it did (was the operation called, its result, the exit status, the log)
Run(tool, argv, cwd, fault, called, none, path, raised, exit, log, pre, env) ==
    [tool |-> tool, argv |-> argv, cwd |-> cwd, fault |-> fault, called |-> called,
     none |-> none, path |-> path, raised |-> raised, exit |-> exit, log |-> log,
     pre |-> pre, env |-> env]

\* the exit status of the interpreter: sys.exit(n) truncates n to eight bits,
\* an exception that reaches the top level prints a traceback and gives 1
ExitStatus(n) == n % 256
UncaughtExit == ExitStatus(1)

\* variant: main() of init_skill.py without the sys.exit(1) of a failed call
init_main_ExitsZero(f, argv, cwd, fault, torn) ==
    IF Len(argv) < 4 \/ Arg(argv, 2) # "--path"
    THEN [fs |-> f,
          run |-> Run("init", argv, cwd, fault, FALSE, TRUE, NoPath, FALSE, ExitStatus(1),
                      <<>>, f, NoEnv)]
    ELSE LET result == init_skill(f, cwd, Arg(argv, 1), ParsePath(Arg(argv, 3)), fault, torn)
         IN [fs |-> result.fs,
             run |-> Run("init", argv, cwd, fault, TRUE, result.none, result.path, FALSE,
                         ExitStatus(0), result.log, f, NoEnv)]

\* main() of init_skill.py
init_main(f, argv, cwd, fault, torn) ==
    IF Len(argv) < 4 \/ Arg(argv, 2) # "--path"
    THEN [fs |-> f,
          run |-> Run("init", argv, cwd, fault, FALSE, TRUE, NoPath, FALSE, ExitStatus(1),
                      <<>>, f, NoEnv)]
    ELSE LET skill_name == Arg(argv, 1)
             path == ParsePath(Arg(argv, 3))
             result == init_skill(f, cwd, skill_name, path, fault, torn)
         IN [fs |-> result.fs,
             run |-> Run("init", argv, cwd, fault, TRUE, result.none, result.path, FALSE,
                         IF ~result.none THEN ExitStatus(0) ELSE ExitStatus(1),
                         result.log, f, NoEnv)]

\* main() of package_skill.py
package_main(f, argv, cwd, fault, written) ==
    IF Len(argv) < 2
    THEN [fs |-> f,
          run |-> Run("package", argv, cwd, fault, FALSE, TRUE, NoPath, FALSE, ExitStatus(1),
                      <<>>, f, NoEnv)]
    ELSE LET skill_path == ParsePath(Arg(argv, 1))
             \* an empty string is falsy, like None
             output_dir == IF Len(argv) > 2 /\ Arg(argv, 2) # ""
                           THEN ParsePath(Arg(argv, 2)) ELSE NoPath
             result == package_skill(f, cwd, skill_path, output_dir, fault, written)
         IN [fs |-> result.fs,
             run |-> Run("package", argv, cwd, fault, TRUE, result.none, result.path,
                         result.raised,
                         IF result.raised THEN UncaughtExit
                         ELSE IF ~result.none THEN ExitStatus(0) ELSE ExitStatus(1),
                         result.log, f, NoEnv)]

(***************************************************************************)
(* check.py                                                                *)
(***************************************************************************)
\* variant: `except Exception` written as a bare `except:`
Catches_BareExcept(handler, exc) ==
    CASE handler = "CalledProcessError" -> exc = "CalledProcessError"
      [] handler = "Exception" -> TRUE
      [] OTHER -> FALSE

\* does `except <handler>` catch an exception of class exc
Catches(handler, exc) ==
    CASE handler = "CalledProcessError" -> exc = "CalledProcessError"
      [] handler = "Exception" -> exc \in {"CalledProcessError", "FileNotFoundError"}
      [] OTHER -> FALSE

\* What the try block of lines 18-22 raises: subprocess.run raises when cargo
\* cannot be launched, and sys.exit raises SystemExit otherwise.
RunBlock(env) ==
    IF env.launched
    THEN [exc |-> "SystemExit", code |-> env.returncode]
    ELSE [exc |-> "FileNotFoundError", code |-> 0]

\* variant: cargo install run without check=True
InstallBlock_Unchecked(env) ==
    IF env.install = "nocargo" THEN "FileNotFoundError" ELSE ""

\* What the try block of lines 11-12 raises ("" when it raises nothing):
\* check=True turns a non-zero exit of cargo install into CalledProcessError
InstallBlock(env) ==
    CASE env.install = "ok" -> ""
      [] env.install = "failed" -> "CalledProcessError"
      [] OTHER -> "FileNotFoundError"

CheckResult(exit, log) == [exit |-> exit, log |-> log]

\* check_cargo_semver() in an environment env:
\*   found       shutil.which("cargo-semver-checks") is not None
\*   install     how `cargo install cargo-semver-checks` would end
\*   launched, returncode   how `cargo semver-checks` would end
check_cargo_semver(env) ==
    LET probe == <<Event("which", <<"cargo-semver-checks">>)>>
        tried == Append(probe, Event("install", <<"cargo-semver-checks">>))
        ready == IF env.found THEN probe ELSE tried
        started == Append(ready, Event("run", <<"cargo", "semver-checks">>))
        raised == RunBlock(env)
    IN IF ~env.found /\ InstallBlock(env) # ""
       THEN IF Catches("CalledProcessError", InstallBlock(env))
            THEN CheckResult(ExitStatus(1), Append(tried, Event("error", <<"install">>)))
            ELSE CheckResult(UncaughtExit, Append(tried, Event("traceback", <<"install">>)))
       ELSE IF Catches("Exception", raised.exc)
            THEN CheckResult(ExitStatus(1), Append(started, Event("error", <<"run">>)))
            ELSE CheckResult(ExitStatus(raised.code), started)

(***************************************************************************)
(* Inputs of the model                                                     *)
(***************************************************************************)
Root == <<>>

SkillNames == {"my-new-skill", "legacy"}

\* a workspace with a regular file `afile` and nothing else
Bare == (Root :> DirNode) @@ (<<"afile">> :> TextFile("other", "", "", <<>>))

Legacy == <<"skills", "legacy">>

WithLegacyDir == MkdirParents(Bare, Legacy)

\* hand-made skill directories found in the workspace
InitialFilesystems ==
    { Bare,
      WithLegacyDir,
      Put(WithLegacyDir, Legacy \o <<"SKILL.md">>,
          TextFile("skillmd", "legacy", "", <<"Legacy">>)),
      Put(Put(WithLegacyDir, Legacy \o <<"SKILL.md">>,
              TextFile("skillmd", "legacy", "An old skill", <<"Legacy">>)),
          Legacy \o <<"notes.md">>, TextFile("other", "", "", <<>>)) }

InitArgvs ==
    { <<"init_skill.py">>,
      <<"init_skill.py", "legacy", "--path">>,
      <<"init_skill.py", "legacy", "-p", "skills">> }
    \cup { <<"init_skill.py", n, "--path", d>> :
             n \in SkillNames, d \in {"skills", "afile"} }

\* a run of package_skill.py: its working directory and its command line
PackageRuns ==
    { <<Root, <<"package_skill.py">> >> }
    \cup { <<Root, <<"package_skill.py", sp>> >> :
             sp \in {"skills/my-new-skill", "skills/legacy", "afile", "missing"} }
    \cup { <<Root, <<"package_skill.py", "skills/my-new-skill", out>> >> :
             out \in {"", "dist", "afile", "skills/my-new-skill/out"} }
    \cup { <<Root, <<"package_skill.py", "skills/legacy", "dist">> >> }
    \cup { << <<"skills", "my-new-skill">>, <<"package_skill.py", ".">> >> }

\* the filesystem operation the environment fails (0: none), and whether the
\* failed operation leaves a trace (an empty file, the created parents)
InitFaults ==
    {<<0, FALSE>>} \cup {<<n, FALSE>> : n \in 1..8} \cup {<<n, TRUE>> : n \in {1, 2, 6}}

PackageFaults == 0..3

\* tool runs in one behaviour
MaxCalls == 2

\* how many files an archive holds when the environment fails a zipf.write
MaxPartial == 1

ReturnCodes == {0, 1, 2, 100, 101, 255}
Signals == {-9, -15}

Envs ==
    [found : BOOLEAN, install : {"ok", "failed", "nocargo"},
     launched : BOOLEAN, returncode : ReturnCodes \cup Signals]

Idle == Run("none", <<>>, Root, 0, FALSE, TRUE, NoPath, FALSE, 0, <<>>, Bare, NoEnv)

(***************************************************************************)
(* Specification                                                           *)
(***************************************************************************)
Init ==
    /\ fs \in InitialFilesystems
    /\ last = [Idle EXCEPT !.pre = fs]
    /\ succ = [d \in {} |-> 0]
    /\ calls = 0

Count(s, d) == IF d \in DOMAIN s THEN s[d] ELSE 0

\* one run of init_skill.py, started in the workspace root
InitSkill ==
    \E argv \in InitArgvs, ft \in InitFaults :
        LET r == init_main(fs, argv, Root, ft[1], ft[2])
            r0 == init_main(fs, argv, Root, 0, FALSE)
        IN /\ calls < MaxCalls
           \* a failure the run never meets is no failure
           /\ ft[1] # 0 => (r.run.log # r0.run.log \/ r.fs # r0.fs)
           /\ fs' = r.fs
           /\ last' = r.run
           /\ succ' = IF r.run.none THEN succ
                      ELSE (r.run.path :> (Count(succ, r.run.path) + 1)) @@ succ
           /\ calls' = calls + 1

\* the skill directory a run of package_skill.py names
Target(run) ==
    IF Len(run[2]) > 1 THEN Resolve(run[1], ParsePath(Arg(run[2], 1))) ELSE run[1]

\* one run of package_skill.py
PackageSkill ==
    \E run \in PackageRuns, fault \in PackageFaults :
        \E written \in {w \in SUBSET FilesUnder(fs, Target(run)) :
                            Cardinality(w) <= MaxPartial} :
            LET r == package_main(fs, run[2], run[1], fault, written)
                r0 == package_main(fs, run[2], run[1], 0, {})
            IN /\ calls < MaxCalls
               /\ IsDir(fs, run[1])
               /\ fault # 3 => written = {}
               \* a failure the run never meets is no failure
               /\ fault # 0 => (r.run.log # r0.run.log \/ r.fs # r0.fs)
               /\ fs' = r.fs
               /\ last' = r.run
               /\ calls' = calls + 1
               /\ UNCHANGED succ

\* one run of check.py
CheckSemver ==
    \E env \in Envs :
        LET r == check_cargo_semver(env)
        IN /\ last' = Run("check", <<"check.py">>, Root, 0, TRUE, TRUE, NoPath, FALSE,
                          r.exit, r.log, fs, env)
           /\ UNCHANGED <<fs, succ, calls>>

Next == InitSkill \/ PackageSkill

Spec == Init /\ [][Next]_vars

NextCheck == CheckSemver

SpecCheck == Init /\ [][NextCheck]_vars

(***************************************************************************)
(* Properties of the Packager                                              *)
(***************************************************************************)
PackageRan == last.tool = "package" /\ last.called

\* the arguments of the last package_skill call, read off its command line
PkgSkillPath == Resolve(last.cwd, ParsePath(Arg(last.argv, 1)))
PkgOutputGiven == Len(last.argv) > 2 /\ Arg(last.argv, 2) # ""
PkgOutputPath ==
    IF PkgOutputGiven THEN Resolve(last.cwd, ParsePath(Arg(last.argv, 2))) ELSE last.cwd
PkgArchive == PkgOutputPath \o <<Name(PkgSkillPath) \o ".skill">>

\* the skill path is missing, is not a directory, or the Validator rejects it
PkgRejected ==
    \/ ~Exists(last.pre, PkgSkillPath)
    \/ ~IsDir(last.pre, PkgSkillPath)
    \/ ~validate_skill(last.pre, PkgSkillPath).valid

WriteOps == {"mkdir", "open", "close", "write"}

\* C1: a package_skill call on a missing, non-directory or invalid skill path
\* returns None and leaves the whole filesystem as it was (no archive, no
\* output directory), and no call writes before the Validator was consulted.
C1_FailsClosed ==
    PackageRan =>
        /\ PkgRejected =>
              /\ last.none
              /\ fs = last.pre
              /\ \A i \in DOMAIN last.log : last.log[i].op \notin WriteOps
        /\ \A i \in DOMAIN last.log :
              last.log[i].op \in WriteOps =>
                  \E j \in 1..(i - 1) : last.log[j] = Event("validate", PkgSkillPath)

\* a call with an output directory on a directory the Validator rejects
C1_Witness ==
    /\ PackageRan
    /\ PkgOutputGiven
    /\ IsDir(last.pre, PkgSkillPath)
    /\ ~validate_skill(last.pre, PkgSkillPath).valid
    /\ last.none

\* C2: a successful package_skill call leaves at the target an archive whose
\* entries are exactly the regular files of the skill directory it was given,
\* named relative to the parent of the skill directory.
C2_ArchiveListsSkillFiles ==
    (PackageRan /\ ~last.none) =>
        /\ last.path = PkgArchive
        /\ IsFile(fs, PkgArchive)
        /\ fs[PkgArchive].fmt = "zip"
        /\ fs[PkgArchive].entries =
              ArcNames(FilesUnder(last.pre, PkgSkillPath), PkgSkillPath)

\* C9: no package_skill call changes the files of the skill directory
C9_SkillDirNotMutated ==
    (PackageRan /\ IsDir(last.pre, PkgSkillPath)) =>
        Subtree(fs, PkgSkillPath) = Subtree(last.pre, PkgSkillPath)

(***************************************************************************)
(* Properties of the Scaffolder                                            *)
(***************************************************************************)
InitRan == last.tool = "init" /\ last.called

\* the arguments of the last init_skill call, read off its command line
InitName == Arg(last.argv, 1)
InitDir == Resolve(last.cwd, ParsePath(Arg(last.argv, 3))) \o <<InitName>>

Children(f, d) == {p \in DOMAIN f : p # <<>> /\ Parent(p) = d}

\* directory d holds SKILL.md and the three resource directories, each of
\* them holding exactly one file, and nothing else
Scaffolded(f, d) ==
    /\ IsDir(f, d)
    /\ IsFile(f, d \o <<"SKILL.md">>)
    /\ Children(f, d) = {d \o <<"SKILL.md">>, d \o <<"scripts">>,
                         d \o <<"references">>, d \o <<"assets">>}
    /\ \A sub \in {"scripts", "references", "assets"} :
          /\ IsDir(f, d \o <<sub>>)
          /\ Cardinality(Children(f, d \o <<sub>>)) = 1
          /\ \A p \in Children(f, d \o <<sub>>) : IsFile(f, p)

\* C3: an init_skill call for a name that exists at the destination returns
\* None and leaves the filesystem as it was; over any sequence of calls no
\* skill directory is returned by more than one call.
C3_ExistingNameFails ==
    /\ (InitRan /\ Exists(last.pre, InitDir)) => (last.none /\ fs = last.pre)
    /\ \A d \in DOMAIN succ : succ[d] <= 1

\* a call that follows the successful call for the same name and path
C3_Witness ==
    /\ InitRan
    /\ InitDir \in DOMAIN succ
    /\ Exists(last.pre, InitDir)
    /\ Scaffolded(last.pre, InitDir)

\* C4 as stated: every init_skill call for a name that does not exist at the
\* destination succeeds and produces the scaffold.
C4_AbsentNameAlwaysSucceeds ==
    (InitRan /\ ~Exists(last.pre, InitDir)) =>
        (~last.none /\ last.path = InitDir /\ Scaffolded(fs, InitDir))

\* C4 as amended: an init_skill call for a name that does not exist at the
\* destination succeeds whenever none of its filesystem operations raises
\* (the destination can hold the directory and the environment fails no
\* operation), and every call that succeeds produces the scaffold.
C4_AbsentNameSucceedsUnlessIOFails ==
    (InitRan /\ ~Exists(last.pre, InitDir)) =>
        /\ (last.fault = 0 /\ MkdirPossible(last.pre, InitDir, FALSE)) => ~last.none
        /\ ~last.none => (last.path = InitDir /\ Scaffolded(fs, InitDir))

\* a successful call for a name that did not exist
C4_Witness ==
    /\ InitRan
    /\ ~Exists(last.pre, InitDir)
    /\ ~last.none
    /\ fs # last.pre

\* the path each filesystem operation of init_skill works on, in order
StepPath(d) ==
    << d, d \o <<"SKILL.md">>,
       d \o <<"scripts">>, d \o <<"scripts", "example.py">>,
       d \o <<"references">>, d \o <<"references", "api_reference.md">>,
       d \o <<"assets">>, d \o <<"assets", "example_asset.txt">> >>

\* what an undisturbed init_skill call would have made of the filesystem
Undisturbed == init_skill(last.pre, last.cwd, InitName, ParsePath(Arg(last.argv, 3)), 0, FALSE).fs

\* the call created the skill directory and one of the later operations failed
PartialFailure ==
    /\ InitRan
    /\ ~Exists(last.pre, InitDir)
    /\ last.fault \in 2..8

\* C10: when an operation after the creation of the skill directory fails,
\* init_skill returns None after reporting the error, no later operation of
\* the sequence is performed, and all that the earlier operations wrote is
\* still there.
C10_NoRollbackNoContinuation ==
    PartialFailure =>
        /\ last.none
        /\ last.log[Len(last.log)].op = "error"
        /\ \A i \in 1..8 :
              /\ i < last.fault =>
                    /\ Exists(fs, StepPath(InitDir)[i])
                    /\ fs[StepPath(InitDir)[i]] = Undisturbed[StepPath(InitDir)[i]]
              /\ i > last.fault => ~Exists(fs, StepPath(InitDir)[i])
        /\ \A p \in DOMAIN last.pre : p \in DOMAIN fs /\ fs[p] = last.pre[p]

\* the write of references/api_reference.md failed
C10_Witness ==
    /\ PartialFailure
    /\ last.fault = 6
    /\ IsFile(fs, InitDir \o <<"scripts", "example.py">>)
    /\ IsDir(fs, InitDir \o <<"references">>)
    /\ ~Exists(fs, InitDir \o <<"assets">>)

(***************************************************************************)
(* The lifecycle: scaffold, validate, package                              *)
(***************************************************************************)
E2EDir == <<"skills", "my-new-skill">>

E2EInitArgv == <<"init_skill.py", "my-new-skill", "--path", "skills">>

\* the skill directory as init_skill leaves it, not edited since
Fresh == Subtree(init_skill(Bare, Root, "my-new-skill", <<"skills">>, 0, FALSE).fs, E2EDir)

\* the packaging step of the scenario: my-new-skill, scaffolded in this
\* behaviour and untouched since, is packaged from the directory the
\* scaffolder ran in, into the default or another directory outside the skill
E2EPackage ==
    /\ PackageRan
    /\ last.cwd = Root
    /\ PkgSkillPath = E2EDir
    /\ Count(succ, E2EDir) = 1
    /\ Subtree(last.pre, E2EDir) = Fresh
    /\ ~IsPrefix(E2EDir, PkgOutputPath)
    /\ MkdirPossible(last.pre, PkgOutputPath, TRUE)

\* C7: with no failure of the environment, scaffolding my-new-skill where it
\* does not exist succeeds, the scaffolded directory passes the Validator,
\* and packaging it gives my-new-skill.skill with exactly the four entries
\* SKILL.md, scripts/example.py, references/api_reference.md and
\* assets/example_asset.txt below my-new-skill/.
C7_Lifecycle ==
    /\ (InitRan /\ last.argv = E2EInitArgv /\ ~Exists(last.pre, E2EDir) /\ last.fault = 0) =>
          /\ ~last.none
          /\ last.path = E2EDir
          /\ validate_skill(fs, E2EDir) = [valid |-> TRUE, message |-> "Skill is valid!"]
    /\ (E2EPackage /\ last.fault = 0) =>
          /\ ~last.none
          /\ Name(last.path) = "my-new-skill.skill"
          /\ IsFile(fs, last.path)
          /\ fs[last.path].entries =
                { <<"my-new-skill", "SKILL.md">>,
                  <<"my-new-skill", "scripts", "example.py">>,
                  <<"my-new-skill", "references", "api_reference.md">>,
                  <<"my-new-skill", "assets", "example_asset.txt">> }

\* the archive of the scenario was written to the working directory
C7_Witness ==
    /\ E2EPackage
    /\ ~PkgOutputGiven
    /\ ~last.none
    /\ IsFile(fs, <<"my-new-skill.skill">>)

(***************************************************************************)
(* Exit statuses of the two command lines                                  *)
(***************************************************************************)
\* Scaffolder: fewer than three arguments, or a second argument that is not
\* --path.  Packager: no skill-folder argument.
Malformed ==
    IF last.tool = "init"
    THEN Len(last.argv) - 1 < 3 \/ Arg(last.argv, 2) # "--path"
    ELSE Len(last.argv) - 1 < 1

\* C8: init_skill.py and package_skill.py exit with 0 exactly when the
\* operation was called and returned a path, with 1 otherwise; on a malformed
\* command line the operation is not called and nothing is written.
C8_ExitStatus ==
    last.tool \in {"init", "package"} =>
        /\ last.exit \in {0, 1}
        /\ last.exit = 0 <=> (last.called /\ ~last.none)
        /\ Malformed <=> ~last.called
        /\ Malformed => (last.exit = 1 /\ fs = last.pre /\ last.log = <<>>)

\* a scaffolder run that failed after its operation was called
C8_Witness ==
    /\ last.tool = "init"
    /\ last.called
    /\ last.none
    /\ fs # last.pre
    /\ last.exit = 1

(***************************************************************************)
(* Properties of the checker wrapper                                       *)
(***************************************************************************)
CheckRan == last.tool = "check"

\* the checker binary is there when `cargo semver-checks` is started
Available == last.env.found \/ last.env.install = "ok"

\* the checker was started and ended with an exit code of its own
Completed == Available /\ last.env.launched /\ last.env.returncode \in 0..255

Occurrences(op) == Cardinality({i \in DOMAIN last.log : last.log[i].op = op})

\* C5: when the checker runs to completion the wrapper exits with the exit
\* code of the checker; when the installation or the launch of the checker
\* fails the wrapper exits with 1.
C5_ExitPassThrough ==
    CheckRan =>
        /\ Completed => last.exit = last.env.returncode
        /\ (~Available \/ ~last.env.launched) => last.exit = 1

\* the checker ended with 101
C5_Witness ==
    /\ CheckRan
    /\ Completed
    /\ last.env.returncode = 101
    /\ last.exit = 101

\* C6: the installation is attempted once when the binary is absent and not
\* at all when it is present; a failed installation is reported, ends the
\* run with a non-zero status, and the checker is not run.
C6_InstallOnceAndFatal ==
    CheckRan =>
        /\ Occurrences("install") = (IF last.env.found THEN 0 ELSE 1)
        /\ (~last.env.found /\ last.env.install # "ok") =>
              /\ last.exit # 0
              /\ Occurrences("run") = 0
              /\ last.log[Len(last.log)].op \in {"error", "traceback"}

\* the binary was absent and cargo install ended with a non-zero status
C6_Witness ==
    /\ CheckRan
    /\ ~last.env.found
    /\ last.env.install = "failed"
    /\ Occurrences("install") = 1
    /\ last.exit = 1

====
